---- MODULE Spec2Model ----
(***************************************************************************)
(* Experiment controller of the semantic-segmentation trainer              *)
(* (src/experiment_builder.py, class ExperimentBuilder): construction with *)
(* the three resume modes, the per-epoch cycle, checkpoint save / load and *)
(* the final test pass.  One experiment folder is shared by a bounded      *)
(* number of successive processes (runs); the folder's files persist from  *)
(* one run to the next.                                                    *)
(*                                                                         *)
(* Python dicts are functions whose DOMAIN is the set of keys present, so  *)
(* that a missing key (KeyError) is observable.  Exceptions are modelled   *)
(* as they are raised by the statements of the source, in statement order. *)
(***************************************************************************)
EXTENDS Integers, Sequences, FiniteSets, TLC

\* ---- bounds ----
MaxEpochs == 2      \* num_epochs is drawn from 0..MaxEpochs
MaxBatches == 1     \* len(train_data) is drawn from 0..MaxBatches
MaxRuns == 2        \* number of successive processes on one experiment folder
MaxMetric == 1      \* per-batch loss / mIoU values are drawn from 0..MaxMetric
MaxParam == 1       \* model parameters are abstracted to 0..MaxParam
NumClass == 2       \* num_class of the Evaluator
MaxLoader == 2      \* batches of a loader handed to a method directly

\* ---- values ----
NaN == -1           \* numpy.mean of an empty list; compares False with everything
FreshParams == 0    \* parameters after model.reset_parameters() (line 22)
MetricValues == 0..MaxMetric
ParamValues == 0..MaxParam
\* continue_from_epoch values tried: -2, -1, the epoch keys, and -3, which the
\* code treats as an epoch key
ResumeValues == (-3)..MaxEpochs
EmptyDict == <<>>
IgnoreLabel == 255   \* ignore_index of the criterion (line 50) and of the label maps

VARIABLES
    pc,                   \* position of the current process
    error,                \* exception that ended the current process, or "none"
    runs,                 \* processes started so far
    continue_from_epoch,  \* constructor argument
    num_epochs,           \* constructor argument
    train_len,            \* len(self.train_data)
    init_branch,          \* branch of __init__ taken: "fresh", "resumed", "fallback", "fatal"
    params,               \* self.state_dict(): the model parameters
    optimizer_steps,      \* optimizer.step() calls of this process (optimizer state)
    scheduler_steps,      \* scheduler.step() calls of this process (LR position)
    best_val_model_idx,
    best_val_model_acc,
    starting_epoch,
    state,                \* self.state, a dict
    epoch_idx,            \* loop variable of run_experiment
    i,                    \* enumerate index of run_experiment
    current_epoch_losses,
    total_losses,
    saved_models,         \* files of the saved_models directory: suffix -> dict
    summary,              \* result_outputs/summary.csv
    val_len,              \* len(self.val_data)
    confusion_matrix,     \* self.evaluator.confusion_matrix
    miou,                 \* value of the last Mean_Intersection_over_Union() call
    loader,               \* batches handed to a method called directly on the object
    consumed,             \* batches of loader consumed so far
    method                \* the method called directly: "none" inside run_experiment

vars == <<pc, error, runs, continue_from_epoch, num_epochs, train_len, init_branch,
          params, optimizer_steps, scheduler_steps, best_val_model_idx,
          best_val_model_acc, starting_epoch, state, epoch_idx, i,
          current_epoch_losses, total_losses, saved_models, summary,
          val_len, confusion_matrix, miou, loader, consumed, method>>

evaluator_vars == <<confusion_matrix, miou>>

direct_vars == <<loader, consumed, method>>

\* ---- dicts and files ----
Put(d, k, v) == [x \in (DOMAIN d) \cup {k} |-> IF x = k THEN v ELSE d[x]]

\* "{}_{}".format(model_save_name, str(model_idx)): the suffix identifies the file
FileKey(model_idx) == ToString(model_idx)
LatestKey == "latest"

\* ---- numpy ----
RECURSIVE SumSeq(_)
SumSeq(s) == IF s = <<>> THEN 0 ELSE Head(s) + SumSeq(Tail(s))

Mean(s) == IF Len(s) = 0 THEN NaN ELSE SumSeq(s) \div Len(s)

GreaterThan(a, b) == a # NaN /\ b # NaN /\ a > b

\* ---- checkpoint store ----
\* save_model: state['network'] = self.state_dict(); torch.save(state, ...)
\* The result is both the new self.state (same dict object) and the file content.
SaveModel(st, network) == Put(st, "network", network)

Raised(kind, network) ==
    [raised |-> kind, params |-> network, best_val_model_idx |-> 0,
     best_val_model_acc |-> 0, state |-> EmptyDict]

\* load_model: torch.load, load_state_dict(state['network']), then the return
\* expression reads the two best-model keys.  params is the parameter value
\* the model holds when the call ends, normally or by an exception.
LoadModel(files, key, network) ==
    IF key \notin DOMAIN files THEN Raised("FileNotFoundError", network)
    ELSE LET st == files[key] IN
         IF "network" \notin DOMAIN st THEN Raised("KeyError", network)
         ELSE IF "best_val_model_idx" \notin DOMAIN st
                 \/ "best_val_model_acc" \notin DOMAIN st
              THEN Raised("KeyError", st["network"])
              ELSE [raised |-> "none", params |-> st["network"],
                    best_val_model_idx |-> st["best_val_model_idx"],
                    best_val_model_acc |-> st["best_val_model_acc"],
                    state |-> st]

\* ---- __init__ ----
\* Outcome of the resume branch of __init__; best_val_model_idx / _acc start
\* at 0 (lines 63-64) and params at FreshParams (line 22).
Outcome(branch, raised, network, idx, acc, st, start) ==
    [branch |-> branch, raised |-> raised, params |-> network,
     best_val_model_idx |-> idx, best_val_model_acc |-> acc,
     state |-> st, starting_epoch |-> start]

\* else branch, lines 91-93
FreshStart == Outcome("fresh", "none", FreshParams, 0, 0, EmptyDict, 0)

LoadAndAssignNextEpoch(files, key) ==
    LET r == LoadModel(files, key, FreshParams) IN
    IF r.raised # "none"
    THEN Outcome("raised", r.raised, r.params, 0, 0, EmptyDict, 0)
    ELSE IF "current_epoch_idx" \notin DOMAIN r.state
         THEN Outcome("raised", "KeyError", r.params, r.best_val_model_idx,
                      r.best_val_model_acc, r.state, 0)
         ELSE Outcome("resumed", "none", r.params, r.best_val_model_idx,
                      r.best_val_model_acc, r.state, r.state["current_epoch_idx"] + 1)

\* lines 77-80 and 87-90: the tuple assignment, then self.state['current_epoch_idx']
LoadAndAssign(files, key) ==
    LET r == LoadModel(files, key, FreshParams) IN
    IF r.raised # "none"
    THEN Outcome("raised", r.raised, r.params, 0, 0, EmptyDict, 0)
    ELSE IF "current_epoch_idx" \notin DOMAIN r.state
         THEN Outcome("raised", "KeyError", r.params, r.best_val_model_idx,
                      r.best_val_model_acc, r.state, 0)
         ELSE Outcome("resumed", "none", r.params, r.best_val_model_idx,
                      r.best_val_model_acc, r.state, r.state["current_epoch_idx"])

ResumeLatestKeyErrorOnly(files) ==
    LET o == LoadAndAssign(files, LatestKey) IN
    IF o.branch = "resumed" THEN o
    ELSE IF o.raised = "KeyError"
         THEN [o EXCEPT !.branch = "fallback", !.raised = "none",
                        !.starting_epoch = 0, !.state = EmptyDict]
         ELSE [o EXCEPT !.branch = "fatal"]

\* continue_from_epoch == -2, lines 75-84: the bare except sets starting_epoch
\* and state only
ResumeLatest(files) ==
    LET o == LoadAndAssign(files, LatestKey) IN
    IF o.branch = "resumed" THEN o
    ELSE [o EXCEPT !.branch = "fallback", !.raised = "none",
                   !.starting_epoch = 0, !.state = EmptyDict]

ResumeFromFallback(files, cfe) ==
    LET o == LoadAndAssign(files, FileKey(cfe)) IN
    IF o.branch = "resumed" THEN o ELSE FreshStart

\* continue_from_epoch != -1, lines 86-90: no try, the exception leaves __init__
ResumeFrom(files, cfe) ==
    LET o == LoadAndAssign(files, FileKey(cfe)) IN
    IF o.branch = "resumed" THEN o ELSE [o EXCEPT !.branch = "fatal"]

InitOutcome(files, cfe) ==
    IF cfe = -2 THEN ResumeLatest(files)
    ELSE IF cfe # -1 THEN ResumeFrom(files, cfe)
    ELSE FreshStart

\* ---- run_experiment helpers ----
NewEpochLosses == [train_acc |-> <<>>, train_loss |-> <<>>, val_acc |-> <<>>, val_loss |-> <<>>]

NewTotalLosses == [train_acc |-> <<>>, train_loss |-> <<>>, val_acc |-> <<>>,
                   val_loss |-> <<>>, curr_epoch |-> <<>>]

InRangeInclusive(e, n) == e <= n

\* range(self.starting_epoch, self.num_epochs), line 173
InRange(e, n) == e < n

AlwaysBetter(val_mean_accuracy, best) == TRUE

\* line 181
IsBetter(val_mean_accuracy, best) == GreaterThan(val_mean_accuracy, best)

\* line 191
ContinueFromMode(start, idx) == start # 0 \/ idx > 0

\* lines 198-200
UpdateState(st, e, acc, idx) ==
    Put(Put(Put(st, "current_epoch_idx", e), "best_val_model_acc", acc),
        "best_val_model_idx", idx)

\* ---- utils.storage.save_statistics ----
NoLog == [exists |-> FALSE, headers |-> 0, rows |-> <<>>]

StatsRow(stats_dict, current_epoch) ==
    [k \in DOMAIN stats_dict |-> stats_dict[k][current_epoch + 1]]

SaveStatistics(log, stats_dict, current_epoch, continue_from_mode) ==
    IF continue_from_mode
    THEN [exists |-> TRUE, headers |-> log.headers,
          rows |-> Append(log.rows, StatsRow(stats_dict, current_epoch))]
    ELSE [exists |-> TRUE, headers |-> 1,
          rows |-> <<StatsRow(stats_dict, current_epoch)>>]

\* ---- utils.metrics.Evaluator ----
Classes == 0..(NumClass - 1)

\* a pixel is <<ground-truth label, predicted label>>
Pixels == (Classes \cup {IgnoreLabel}) \X Classes

\* ground truth [0,0,1,1] with prediction [0,1,1,1]
ExampleBatch == << <<0, 0>>, <<0, 1>>, <<1, 1>>, <<1, 1>> >>

Batches ==
    {<<px>> : px \in Pixels}
    \cup {ExampleBatch, << <<0, 0>>, <<1, 1>> >>, << <<IgnoreLabel, 1>>, <<1, 0>>, <<0, 0>> >>}

\* Evaluator(num_class) and reset()
ZeroMatrix == [g \in Classes |-> [p \in Classes |-> 0]]

AddPixelClipped(M, px) ==
    LET g == IF px[1] \in Classes THEN px[1] ELSE NumClass - 1 IN
    [M EXCEPT ![g][px[2]] = @ + 1]

\* one pixel of add_batch: labels outside [0, num_class), the ignore label
\* among them, are left out
AddPixel(M, px) ==
    IF px[1] \in Classes THEN [M EXCEPT ![px[1]][px[2]] = @ + 1] ELSE M

RECURSIVE AddBatch(_, _)
AddBatch(M, batch) ==
    IF batch = <<>> THEN M ELSE AddBatch(AddPixel(M, Head(batch)), Tail(batch))

RowSum(M, c) == SumSeq([n \in 1..NumClass |-> M[c][n - 1]])

ColSum(M, c) == SumSeq([n \in 1..NumClass |-> M[n - 1][c]])

UnionOf(M, c) == RowSum(M, c) + ColSum(M, c) - M[c][c]

RECURSIVE Gcd(_, _)
Gcd(a, b) == IF b = 0 THEN a ELSE Gcd(b, a % b)

\* fractions are <<numerator, denominator>> in lowest terms; <<0, 0>> is NaN
NaNFraction == <<0, 0>>

Fraction(n, d) == LET g == Gcd(n, d) IN <<n \div g, d \div g>>

RECURSIVE SumIoU(_, _)
SumIoU(M, S) ==
    IF S = {} THEN <<0, 1>>
    ELSE LET c == CHOOSE x \in S : TRUE
             r == SumIoU(M, S \ {c})
         IN <<r[1] * UnionOf(M, c) + M[c][c] * r[2], r[2] * UnionOf(M, c)>>

MeanIoUZeroForAbsent(M) ==
    LET S == {c \in Classes : UnionOf(M, c) > 0}
        t == SumIoU(M, S)
    IN Fraction(t[1], t[2] * NumClass)

\* Mean_Intersection_over_Union: mean of M[c][c] / union over the classes with
\* a non-zero union
MeanIoU(M) ==
    LET S == {c \in Classes : UnionOf(M, c) > 0}
        t == SumIoU(M, S)
    IN IF S = {} THEN NaNFraction ELSE Fraction(t[1], t[2] * Cardinality(S))

\* ---- run_train_iter / run_evaluation_iter ----
RunTrainIterStepTwice(batch, p) ==
    /\ params' = p
    /\ optimizer_steps' = optimizer_steps + 1
    /\ scheduler_steps' = scheduler_steps + 2
    /\ confusion_matrix' = AddBatch(ZeroMatrix, batch)
    /\ miou' = MeanIoU(confusion_matrix')

\* lines 95-115: reset, forward, backward, optimizer and scheduler step,
\* add_batch(target, predicted), mIoU of the matrix
RunTrainIter(batch, p) ==
    /\ params' = p
    /\ optimizer_steps' = optimizer_steps + 1
    /\ scheduler_steps' = scheduler_steps + 1
    /\ confusion_matrix' = AddBatch(ZeroMatrix, batch)
    /\ miou' = MeanIoU(confusion_matrix')

\* lines 117-134: reset, forward, add_batch(target, predicted), mIoU
RunEvaluationIter(batch) ==
    /\ confusion_matrix' = AddBatch(ZeroMatrix, batch)
    /\ miou' = MeanIoU(confusion_matrix')
    /\ UNCHANGED <<params, optimizer_steps, scheduler_steps>>

\* ---- initial states ----
InitObject ==
    /\ error = "none"
    /\ runs = 0
    /\ continue_from_epoch = -1
    /\ num_epochs = 0
    /\ train_len = 0
    /\ init_branch = "fresh"
    /\ params = FreshParams
    /\ optimizer_steps = 0
    /\ scheduler_steps = 0
    /\ best_val_model_idx = 0
    /\ best_val_model_acc = 0
    /\ starting_epoch = 0
    /\ state = EmptyDict
    /\ epoch_idx = 0
    /\ i = 0
    /\ current_epoch_losses = NewEpochLosses
    /\ total_losses = NewTotalLosses
    /\ summary = NoLog
    /\ val_len = 0
    /\ confusion_matrix = ZeroMatrix
    /\ miou = NaNFraction

\* no process yet, no method called directly
InitProcess ==
    /\ InitObject
    /\ pc = "none"
    /\ loader = <<>>
    /\ consumed = 0
    /\ method = "none"

\* a new experiment folder: no checkpoint, no log
Init ==
    /\ InitProcess
    /\ saved_models = <<>>

\* ---- actions ----
\* ExperimentBuilder.__init__, lines 17-93
Construct ==
    /\ pc \in {"none", "init_error", "run_error"}
    /\ runs < MaxRuns
    /\ \E cfe \in ResumeValues, ne \in 0..MaxEpochs, tl \in 0..MaxBatches,
          vl \in 0..MaxBatches :
         LET o == InitOutcome(saved_models, cfe) IN
         /\ continue_from_epoch' = cfe
         /\ num_epochs' = ne
         /\ train_len' = tl
         /\ val_len' = vl
         /\ init_branch' = o.branch
         /\ params' = o.params
         /\ best_val_model_idx' = o.best_val_model_idx
         /\ best_val_model_acc' = o.best_val_model_acc
         /\ state' = o.state
         /\ starting_epoch' = o.starting_epoch
         /\ error' = o.raised
         /\ pc' = IF o.branch = "fatal" THEN "init_error" ELSE "constructed"
    /\ runs' = runs + 1
    /\ optimizer_steps' = 0
    /\ scheduler_steps' = 0
    /\ epoch_idx' = 0
    /\ i' = 0
    /\ current_epoch_losses' = NewEpochLosses
    /\ total_losses' = NewTotalLosses
    /\ confusion_matrix' = ZeroMatrix
    /\ miou' = NaNFraction
    /\ UNCHANGED <<saved_models, summary>>
    /\ UNCHANGED direct_vars

\* run_experiment entry, lines 171-175: first iteration of the for loop, or none
BeginRun ==
    /\ pc = "constructed"
    /\ total_losses' = NewTotalLosses
    /\ IF InRange(starting_epoch, num_epochs)
       THEN /\ epoch_idx' = starting_epoch
            /\ i' = 0
            /\ current_epoch_losses' = NewEpochLosses
            /\ pc' = "Training"
       ELSE /\ pc' = "Finalizing"
            /\ UNCHANGED <<epoch_idx, i, current_epoch_losses>>
    /\ UNCHANGED <<error, runs, continue_from_epoch, num_epochs, train_len, init_branch,
                   params, optimizer_steps, scheduler_steps, best_val_model_idx,
                   best_val_model_acc, starting_epoch, state, saved_models, summary>>
    /\ UNCHANGED <<val_len, confusion_matrix, miou, loader, consumed, method>>

RunTrainingEpochSavingLatest ==
    /\ pc = "Training"
    /\ state' = SaveModel(UpdateState(state, epoch_idx, best_val_model_acc,
                                      best_val_model_idx), params)
    /\ saved_models' = Put(saved_models, LatestKey, state')
    /\ pc' = "Validating"
    /\ UNCHANGED <<error, runs, continue_from_epoch, num_epochs, train_len, init_branch,
                   params, optimizer_steps, scheduler_steps, best_val_model_idx,
                   best_val_model_acc, starting_epoch, epoch_idx, i,
                   current_epoch_losses, total_losses, summary, val_len,
                   confusion_matrix, miou, loader, consumed, method>>

\* run_training_epoch, lines 142-151, with run_train_iter, lines 95-115.
\* The first batch is trained on (optimizer and scheduler step), its loss is
\* appended to "train_loss", and the append to "train_miou" raises KeyError:
\* the dict built at line 175 has no such key.
RunTrainingEpoch ==
    /\ pc = "Training"
    /\ IF train_len = 0
       THEN /\ pc' = "Validating"
            /\ UNCHANGED <<error, params, optimizer_steps, scheduler_steps,
                           current_epoch_losses, confusion_matrix, miou>>
       ELSE \E loss \in MetricValues, p \in ParamValues, batch \in Batches :
            /\ RunTrainIter(batch, p)
            /\ current_epoch_losses' =
                   [current_epoch_losses EXCEPT !.train_loss = Append(@, loss)]
            /\ IF "train_miou" \in DOMAIN current_epoch_losses
               THEN /\ pc' = "Validating"
                    /\ UNCHANGED error
               ELSE /\ pc' = "run_error"
                    /\ error' = "KeyError"
    /\ UNCHANGED <<runs, continue_from_epoch, num_epochs, train_len, init_branch,
                   best_val_model_idx, best_val_model_acc, starting_epoch, state,
                   epoch_idx, i, total_losses, saved_models, summary, val_len>>
    /\ UNCHANGED direct_vars

\* run_validation_epoch, lines 153-162: the loop is over self.train_data and its
\* body calls run_train_iter(x=x, y=y), whose parameters are image and target:
\* TypeError on the first batch, nothing is executed or recorded.
RunValidationEpoch ==
    /\ pc = "Validating"
    /\ IF train_len = 0
       THEN /\ pc' = "EpochEnd"
            /\ UNCHANGED error
       ELSE /\ pc' = "run_error"
            /\ error' = "TypeError"
    /\ UNCHANGED <<runs, continue_from_epoch, num_epochs, train_len, init_branch,
                   params, optimizer_steps, scheduler_steps, best_val_model_idx,
                   best_val_model_acc, starting_epoch, state, epoch_idx, i,
                   current_epoch_losses, total_losses, saved_models, summary>>
    /\ UNCHANGED <<val_len, confusion_matrix, miou, loader, consumed, method>>

\* lines 180-191: best-model bookkeeping, epoch means, save_statistics
EndEpoch ==
    /\ pc = "EpochEnd"
    /\ LET val_mean_accuracy == Mean(current_epoch_losses.val_acc)
           better == IsBetter(val_mean_accuracy, best_val_model_acc)
           totals == [k \in DOMAIN total_losses |->
                        IF k = "curr_epoch" THEN Append(total_losses[k], epoch_idx)
                        ELSE Append(total_losses[k], Mean(current_epoch_losses[k]))]
       IN /\ best_val_model_acc' = IF better THEN val_mean_accuracy ELSE best_val_model_acc
          /\ best_val_model_idx' = IF better THEN epoch_idx ELSE best_val_model_idx
          /\ total_losses' = totals
          /\ summary' = SaveStatistics(summary, totals, i,
                                       ContinueFromMode(starting_epoch, i))
    /\ pc' = "Checkpointing"
    /\ UNCHANGED <<error, runs, continue_from_epoch, num_epochs, train_len, init_branch,
                   params, optimizer_steps, scheduler_steps, starting_epoch, state,
                   epoch_idx, i, current_epoch_losses, saved_models>>
    /\ UNCHANGED <<val_len, confusion_matrix, miou, loader, consumed, method>>

SaveLatestNextEpoch ==
    /\ pc = "SavingLatest"
    /\ state' = SaveModel(state, params)
    /\ saved_models' = Put(saved_models, LatestKey,
                           Put(state', "current_epoch_idx", epoch_idx + 1))
    /\ pc' = "EpochDone"
    /\ UNCHANGED <<error, runs, continue_from_epoch, num_epochs, train_len, init_branch,
                   params, optimizer_steps, scheduler_steps, best_val_model_idx,
                   best_val_model_acc, starting_epoch, epoch_idx, i,
                   current_epoch_losses, total_losses, summary>>
    /\ UNCHANGED <<val_len, confusion_matrix, miou, loader, consumed, method>>

\* lines 198-202: the three state fields, then save_model keyed by epoch_idx
SaveEpochCheckpoint ==
    /\ pc = "Checkpointing"
    /\ state' = SaveModel(UpdateState(state, epoch_idx, best_val_model_acc,
                                      best_val_model_idx), params)
    /\ saved_models' = Put(saved_models, FileKey(epoch_idx), state')
    /\ pc' = "SavingLatest"
    /\ UNCHANGED <<error, runs, continue_from_epoch, num_epochs, train_len, init_branch,
                   params, optimizer_steps, scheduler_steps, best_val_model_idx,
                   best_val_model_acc, starting_epoch, epoch_idx, i,
                   current_epoch_losses, total_losses, summary>>
    /\ UNCHANGED <<val_len, confusion_matrix, miou, loader, consumed, method>>

\* lines 203-204: save_model keyed 'latest'
SaveLatestCheckpoint ==
    /\ pc = "SavingLatest"
    /\ state' = SaveModel(state, params)
    /\ saved_models' = Put(saved_models, LatestKey, state')
    /\ pc' = "EpochDone"
    /\ UNCHANGED <<error, runs, continue_from_epoch, num_epochs, train_len, init_branch,
                   params, optimizer_steps, scheduler_steps, best_val_model_idx,
                   best_val_model_acc, starting_epoch, epoch_idx, i,
                   current_epoch_losses, total_losses, summary>>
    /\ UNCHANGED <<val_len, confusion_matrix, miou, loader, consumed, method>>

\* line 173, next iteration of the for loop, and line 175
NextEpoch ==
    /\ pc = "EpochDone"
    /\ IF InRange(epoch_idx + 1, num_epochs)
       THEN /\ epoch_idx' = epoch_idx + 1
            /\ i' = i + 1
            /\ current_epoch_losses' = NewEpochLosses
            /\ pc' = "Training"
       ELSE /\ pc' = "Finalizing"
            /\ UNCHANGED <<epoch_idx, i, current_epoch_losses>>
    /\ UNCHANGED <<error, runs, continue_from_epoch, num_epochs, train_len, init_branch,
                   params, optimizer_steps, scheduler_steps, best_val_model_idx,
                   best_val_model_acc, starting_epoch, state, total_losses,
                   saved_models, summary>>
    /\ UNCHANGED <<val_len, confusion_matrix, miou, loader, consumed, method>>

\* lines 206-219: load_model of the best checkpoint (return value dropped), then
\* self.run_testing_epoch, which the class does not define: AttributeError.
\* Lines 213-219 (test_summary.csv, return) are never reached.
Finalize ==
    /\ pc = "Finalizing"
    /\ LET r == LoadModel(saved_models, FileKey(best_val_model_idx), params) IN
       /\ params' = r.params
       /\ error' = IF r.raised # "none" THEN r.raised ELSE "AttributeError"
    /\ pc' = "run_error"
    /\ UNCHANGED <<runs, continue_from_epoch, num_epochs, train_len, init_branch,
                   optimizer_steps, scheduler_steps, best_val_model_idx,
                   best_val_model_acc, starting_epoch, state, epoch_idx, i,
                   current_epoch_losses, total_losses, saved_models, summary>>
    /\ UNCHANGED <<val_len, confusion_matrix, miou, loader, consumed, method>>

Next ==
    \/ Construct
    \/ BeginRun
    \/ RunTrainingEpoch
    \/ RunValidationEpoch
    \/ EndEpoch
    \/ SaveEpochCheckpoint
    \/ SaveLatestCheckpoint
    \/ NextEpoch
    \/ Finalize

Spec == Init /\ [][Next]_vars

\* a folder whose 'latest' file was not written by this class (another tool or
\* another version of the checkpoint schema): any subset of the fields
CheckpointFields == {"network", "current_epoch_idx", "best_val_model_idx", "best_val_model_acc"}

ForeignDicts == UNION {[S -> 0..1] : S \in SUBSET CheckpointFields}

InitForeign ==
    /\ InitProcess
    /\ saved_models \in {<<>>} \cup {(LatestKey :> d) : d \in ForeignDicts}

SpecForeign == InitForeign /\ [][Next]_vars

\* ---- methods called directly on a constructed object ----
\* a fresh controller (continue_from_epoch = -1) on which one of add_batch,
\* run_train_iter, run_evaluation_iter is called with the batches of a loader,
\* in the loader's order
Loaders == UNION {[1..n -> Batches] : n \in 0..MaxLoader}

Methods == {"add_batch", "run_train_iter", "run_evaluation_iter"}

InitMethods ==
    /\ InitObject
    /\ pc = "direct"
    /\ saved_models = <<>>
    /\ loader \in Loaders
    /\ consumed = 0
    /\ method \in Methods

\* evaluator.add_batch(target, predicted), then Mean_Intersection_over_Union()
CallAddBatch ==
    /\ pc = "direct" /\ method = "add_batch"
    /\ consumed < Len(loader)
    /\ confusion_matrix' = AddBatch(confusion_matrix, loader[consumed + 1])
    /\ miou' = MeanIoU(confusion_matrix')
    /\ consumed' = consumed + 1
    /\ UNCHANGED <<pc, error, runs, continue_from_epoch, num_epochs, train_len,
                   init_branch, params, optimizer_steps, scheduler_steps,
                   best_val_model_idx, best_val_model_acc, starting_epoch, state,
                   epoch_idx, i, current_epoch_losses, total_losses, saved_models,
                   summary, val_len, loader, method>>

\* run_train_iter(image, target), lines 95-115
CallRunTrainIter ==
    /\ pc = "direct" /\ method = "run_train_iter"
    /\ consumed < Len(loader)
    /\ \E p \in ParamValues : RunTrainIter(loader[consumed + 1], p)
    /\ consumed' = consumed + 1
    /\ UNCHANGED <<pc, error, runs, continue_from_epoch, num_epochs, train_len,
                   init_branch, best_val_model_idx, best_val_model_acc,
                   starting_epoch, state, epoch_idx, i, current_epoch_losses,
                   total_losses, saved_models, summary, val_len, loader, method>>

\* run_evaluation_iter(image, target), lines 117-134
CallRunEvaluationIter ==
    /\ pc = "direct" /\ method = "run_evaluation_iter"
    /\ consumed < Len(loader)
    /\ RunEvaluationIter(loader[consumed + 1])
    /\ consumed' = consumed + 1
    /\ UNCHANGED <<pc, error, runs, continue_from_epoch, num_epochs, train_len,
                   init_branch, best_val_model_idx, best_val_model_acc,
                   starting_epoch, state, epoch_idx, i, current_epoch_losses,
                   total_losses, saved_models, summary, val_len, loader, method>>

NextMethods ==
    \/ CallAddBatch
    \/ CallRunTrainIter
    \/ CallRunEvaluationIter

SpecMethods == InitMethods /\ [][NextMethods]_vars

\* ---- properties ----
InEpoch == pc \in {"Training", "Validating", "EpochEnd", "Checkpointing", "SavingLatest", "EpochDone"}

SameProcess == runs' = runs

IsPrefix(s, t) == Len(s) <= Len(t) /\ \A n \in 1..Len(s) : s[n] = t[n]

GreaterEq(a, b) == a # NaN /\ b # NaN /\ a >= b

\* the controller fields equal those that continue_from_epoch = -1 produces
IsFreshStartState ==
    LET f == InitOutcome(saved_models, -1) IN
    /\ starting_epoch = f.starting_epoch
    /\ state = f.state
    /\ best_val_model_idx = f.best_val_model_idx
    /\ best_val_model_acc = f.best_val_model_acc
    /\ params = f.params

\* C1: constructing with continue_from_epoch = -2 when no 'latest' checkpoint
\* exists raises no error and leaves starting_epoch, state, best_val_model_idx,
\* best_val_model_acc (and the parameters) as continue_from_epoch = -1 does.
C1_ResumeLatestWithoutCheckpoint ==
    (pc \in {"constructed", "init_error"} /\ continue_from_epoch = -2
        /\ LatestKey \notin DOMAIN saved_models)
    => (pc = "constructed" /\ error = "none" /\ IsFreshStartState
        /\ starting_epoch = 0 /\ state = EmptyDict
        /\ best_val_model_idx = 0 /\ best_val_model_acc = 0)

C1_Witness ==
    pc = "constructed" /\ continue_from_epoch = -2 /\ LatestKey \notin DOMAIN saved_models
    /\ init_branch = "fallback"

\* C2: constructing with continue_from_epoch = E >= 0 when no checkpoint keyed E
\* exists ends in a fatal error, never in a fresh start; the failed process runs
\* no epoch and writes no checkpoint and no summary row.
C2_Step ==
    /\ (runs' = runs + 1 /\ continue_from_epoch' >= 0
            /\ FileKey(continue_from_epoch') \notin DOMAIN saved_models)
       => (pc' = "init_error" /\ error' # "none" /\ init_branch' = "fatal")
    /\ (pc = "init_error")
       => (runs' = runs + 1 /\ saved_models' = saved_models /\ summary' = summary)

C2_MissingEpochCheckpointIsFatal == [][C2_Step]_vars

C2_Witness ==
    pc = "init_error" /\ continue_from_epoch >= 0 /\ error = "FileNotFoundError"
    /\ FileKey(continue_from_epoch) \notin DOMAIN saved_models

\* C3: with continue_from_epoch = -2, whenever the load of 'latest' fails (also
\* part-way), the controller is in the fresh-start state: nothing read from the
\* failed checkpoint is retained.
C3_AnyLoadFailureFallsBackToFresh ==
    (pc = "constructed" /\ continue_from_epoch = -2 /\ init_branch = "fallback")
    => IsFreshStartState

\* C4: run_experiment always reaches Finalizing and returns after one test pass
\* and the test summary: no run of it ends by an exception.
C4_RunExperimentReturns == pc # "run_error"

\* C5: right after the Checkpointing step of an epoch the file keyed by the
\* epoch index and the file keyed 'latest' both exist and hold the same content:
\* the current epoch index, best index, best value and model parameters.
C5_TwoIdenticalCheckpoints ==
    pc = "EpochDone" =>
        /\ FileKey(epoch_idx) \in DOMAIN saved_models
        /\ LatestKey \in DOMAIN saved_models
        /\ saved_models[FileKey(epoch_idx)] = saved_models[LatestKey]
        /\ saved_models[LatestKey]["current_epoch_idx"] = epoch_idx
        /\ saved_models[LatestKey]["best_val_model_idx"] = best_val_model_idx
        /\ saved_models[LatestKey]["best_val_model_acc"] = best_val_model_acc
        /\ saved_models[LatestKey]["network"] = params

C5_Witness ==
    pc = "EpochDone" /\ i = 1 /\ saved_models[FileKey(epoch_idx)] = saved_models[LatestKey]

\* C6: within one run best_val_model_acc never decreases from one step to the
\* next, and the value written into a checkpoint is not below the value in any
\* checkpoint the same run wrote for an earlier epoch.
C6_Step ==
    /\ SameProcess => GreaterEq(best_val_model_acc', best_val_model_acc)
    /\ (SameProcess /\ saved_models' # saved_models)
       => \A e \in starting_epoch..(epoch_idx - 1) :
            GreaterEq(state'["best_val_model_acc"],
                      saved_models[FileKey(e)]["best_val_model_acc"])

C6_BestValueNonDecreasing == [][C6_Step]_vars

C6_Witness == pc = "EpochDone" /\ i >= 1 /\ init_branch = "resumed"

\* C7: in every init mode, during the epoch cycle 0 <= epoch index < num_epochs,
\* and the current_epoch_idx put into the state and into the checkpoints that
\* the run writes is in that range.
C7_EpochIndexInRange ==
    /\ InEpoch => (0 <= epoch_idx /\ epoch_idx < num_epochs)
    /\ pc \in {"SavingLatest", "EpochDone"} =>
           /\ 0 <= state["current_epoch_idx"] /\ state["current_epoch_idx"] < num_epochs
           /\ saved_models[FileKey(epoch_idx)]["current_epoch_idx"] = state["current_epoch_idx"]
    /\ pc = "EpochDone" =>
           saved_models[LatestKey]["current_epoch_idx"] = state["current_epoch_idx"]

C7_Witness == pc = "Training" /\ init_branch = "resumed" /\ epoch_idx >= 1

\* C8: a resumed run (a checkpoint was loaded, for 'latest' or for any E >= 0)
\* only appends to summary.csv: the rows and header already there stay.
C8_Step ==
    (SameProcess /\ init_branch = "resumed")
    => (IsPrefix(summary.rows, summary'.rows) /\ summary'.headers = summary.headers)

C8_ResumedRunsOnlyAppend == [][C8_Step]_vars

\* C9: summary.csv holds one header row and no epoch index in two data rows.
C9_OneRowPerEpoch ==
    summary.exists =>
        /\ summary.headers = 1
        /\ \A a, b \in DOMAIN summary.rows :
             a # b => summary.rows[a].curr_epoch # summary.rows[b].curr_epoch

\* C10: every checkpoint written by save_model holds the model parameters, the
\* optimizer state, the epoch index and the best-model bookkeeping, and a
\* controller resumed from a checkpoint holds the fields of that checkpoint.
C10_CheckpointRoundTrip ==
    /\ \A k \in DOMAIN saved_models :
         CheckpointFields \cup {"optimizer"} \subseteq DOMAIN saved_models[k]
    /\ (pc = "constructed" /\ init_branch = "resumed") =>
         LET key == IF continue_from_epoch = -2 THEN LatestKey
                    ELSE FileKey(continue_from_epoch) IN
         /\ state = saved_models[key]
         /\ params = state["network"]
         /\ best_val_model_idx = state["best_val_model_idx"]
         /\ best_val_model_acc = state["best_val_model_acc"]

\* ---- properties of the metric engine and of the iteration methods ----
RECURSIVE Concat(_, _)
\* the pixels of the first n batches of a loader, in order
Concat(ld, n) == IF n = 0 THEN <<>> ELSE Concat(ld, n - 1) \o ld[n]

RECURSIVE ConcatReversed(_, _)
\* the pixels of the first n batches, the batches taken in the opposite order
ConcatReversed(ld, n) == IF n = 0 THEN <<>> ELSE ld[n] \o ConcatReversed(ld, n - 1)

\* the matrix counted cell by cell from a pixel sequence
CountMatrix(pixels) ==
    [g \in Classes |-> [p \in Classes |->
        Cardinality({n \in DOMAIN pixels : pixels[n] = <<g, p>>})]]

CellTotal(M) == SumSeq([n \in 1..NumClass |-> RowSum(M, n - 1)])

\* C11: after any number of add_batch calls without a reset the matrix is the
\* one of a single add_batch over the concatenated pixels, whatever the order
\* of the batches, and pixels labelled 255 are in no cell.
C11_AddBatchAccumulates ==
    (pc = "direct" /\ method = "add_batch") =>
        LET pixels == Concat(loader, consumed) IN
        /\ confusion_matrix = AddBatch(ZeroMatrix, pixels)
        /\ confusion_matrix = AddBatch(ZeroMatrix, ConcatReversed(loader, consumed))
        /\ confusion_matrix = CountMatrix(pixels)
        /\ CellTotal(confusion_matrix)
             = Cardinality({n \in DOMAIN pixels : pixels[n][1] # IgnoreLabel})

C11_Witness ==
    /\ pc = "direct" /\ method = "add_batch" /\ consumed = 2
    /\ loader[1] # loader[2]
    /\ \E n \in DOMAIN loader[1] : loader[1][n][1] = IgnoreLabel
    /\ CellTotal(confusion_matrix) > 0

\* C12: the mIoU is the mean of M[c][c] / union over the classes with non-zero
\* union: 1 when every pixel is predicted correctly, the IoU of the only class
\* present when there is one, and 7/12 with matrix [[1,1],[0,2]] for ground
\* truth [0,0,1,1] and prediction [0,1,1,1].
C12_MeanIoU ==
    (pc = "direct" /\ consumed >= 1) =>
        LET pixels == IF method = "add_batch" THEN Concat(loader, consumed)
                      ELSE loader[consumed]
            present == {c \in Classes : UnionOf(confusion_matrix, c) > 0}
        IN
        /\ (\A n \in DOMAIN pixels : pixels[n][1] = pixels[n][2]) => miou = <<1, 1>>
        /\ \A c \in Classes :
             present = {c} =>
               miou[1] * UnionOf(confusion_matrix, c) = miou[2] * confusion_matrix[c][c]
        /\ pixels = ExampleBatch =>
             /\ confusion_matrix[0][0] = 1 /\ confusion_matrix[0][1] = 1
             /\ confusion_matrix[1][0] = 0 /\ confusion_matrix[1][1] = 2
             /\ miou = <<7, 12>>

C12_Witness ==
    pc = "direct" /\ method = "add_batch" /\ consumed = 1 /\ loader[1] = ExampleBatch
    /\ miou = <<7, 12>>

\* C17: the matrix is reset at the entry of a phase only: after the k-th batch
\* of a phase (k calls of the phase's iteration method) it holds the counts of
\* all k batches.
C17_MatrixCoversPhase ==
    (pc = "direct" /\ method \in {"run_train_iter", "run_evaluation_iter"}) =>
        confusion_matrix = CountMatrix(Concat(loader, consumed))

\* ---- properties of the epoch cycle ----
\* C13: the Validating phase runs one iteration per validation batch, records
\* each under the validation names, and leaves the parameters, the optimizer
\* and the scheduler position as they were at its start.
C13_Step ==
    (SameProcess /\ pc = "Validating") =>
        /\ params' = params
        /\ optimizer_steps' = optimizer_steps
        /\ scheduler_steps' = scheduler_steps
        /\ pc' = "EpochEnd" =>
             /\ Len(current_epoch_losses'.val_loss) = val_len
             /\ Len(current_epoch_losses'.val_acc) = val_len

C13_ValidatingPhase == [][C13_Step]_vars

\* C14: at the end of an epoch the value compared with the best value is the
\* mean of the mIoU values of that epoch's validation batches; if it is greater
\* the best value and index become it and the epoch, otherwise both stay.
C14_Step ==
    (SameProcess /\ pc = "EpochEnd") =>
        LET m == Mean(current_epoch_losses.val_acc) IN
        /\ Len(current_epoch_losses.val_acc) = val_len
        /\ IF GreaterThan(m, best_val_model_acc)
           THEN best_val_model_acc' = m /\ best_val_model_idx' = epoch_idx
           ELSE UNCHANGED <<best_val_model_acc, best_val_model_idx>>

C14_BestModelUpdate == [][C14_Step]_vars

\* C15: the scheduler is stepped once for a training batch and at no other
\* time; in a fresh run its counter never exceeds num_epochs * len(train_data)
\* and equals it when the Training phase of the last epoch ends.
C15_Step ==
    /\ (SameProcess /\ scheduler_steps' # scheduler_steps)
       => (pc = "Training" /\ train_len > 0 /\ scheduler_steps' = scheduler_steps + 1
           /\ optimizer_steps' = optimizer_steps + 1)
    /\ (init_branch' = "fresh" /\ pc' \notin {"none", "init_error"})
       => scheduler_steps' <= num_epochs' * train_len'
    /\ (SameProcess /\ init_branch = "fresh" /\ pc = "Training" /\ pc' = "Validating"
            /\ epoch_idx = num_epochs - 1)
       => scheduler_steps' = num_epochs * train_len

C16_Step ==
    /\ pc \in {"Training", "Validating", "EpochEnd"} => saved_models' = saved_models
    /\ (SameProcess /\ saved_models' # saved_models) =>
         /\ pc \in {"Checkpointing", "SavingLatest"}
         /\ \A f \in DOMAIN saved_models' :
              (f \notin DOMAIN saved_models \/ saved_models'[f] # saved_models[f])
              => /\ f \in {FileKey(epoch_idx), LatestKey}
                 /\ saved_models'[f]["current_epoch_idx"] = epoch_idx

C16_CheckpointAfterPhases == [][C16_Step]_vars

C16_Witness ==
    /\ pc = "run_error" /\ error = "KeyError" /\ optimizer_steps = 1
    /\ LatestKey \in DOMAIN saved_models

\* C18: whenever the controller is in Finalizing, the checkpoint keyed by
\* best_val_model_idx exists.
C18_BestCheckpointExists ==
    pc = "Finalizing" => FileKey(best_val_model_idx) \in DOMAIN saved_models

\* C19: when an epoch execution has just written the checkpoint that
\* best_val_model_idx points at, that execution's mean validation mIoU is
\* best_val_model_acc and the file holds its parameters.
C19_BestCheckpointMatchesBestValue ==
    (pc = "EpochDone" /\ best_val_model_idx = epoch_idx) =>
        /\ Mean(current_epoch_losses.val_acc) = best_val_model_acc
        /\ saved_models[FileKey(best_val_model_idx)]["network"] = params

\* C20: a run resumed from a checkpoint whose current_epoch_idx is E starts its
\* loop at E: it executes epoch E again and overwrites the files keyed E and
\* 'latest'; with E >= num_epochs it goes straight to Finalizing.
C20_Step ==
    /\ (SameProcess /\ pc = "constructed" /\ init_branch = "resumed") =>
         LET E == state["current_epoch_idx"] IN
         IF E < num_epochs
         THEN pc' = "Training" /\ epoch_idx' = E /\ i' = 0
         ELSE pc' = "Finalizing"
    /\ (SameProcess /\ init_branch = "resumed" /\ i = 0 /\ pc = "Checkpointing") =>
         LET E == state["current_epoch_idx"] IN
         /\ epoch_idx = E
         /\ FileKey(E) \in DOMAIN saved_models
         /\ saved_models'[FileKey(E)] = state'
         /\ state'["current_epoch_idx"] = E
    /\ (SameProcess /\ init_branch = "resumed" /\ i = 0 /\ pc = "SavingLatest") =>
         /\ saved_models'[LatestKey] = state'
         /\ state'["current_epoch_idx"] = starting_epoch

C20_ResumeReexecutesEpoch == [][C20_Step]_vars

C20_Witness ==
    /\ pc = "EpochDone" /\ init_branch = "resumed" /\ i = 0
    /\ epoch_idx = starting_epoch /\ epoch_idx >= 1
    /\ saved_models[LatestKey]["current_epoch_idx"] = epoch_idx

====
